---- MODULE Spec2Model ----
(***************************************************************************)
(* A model of build_dataset.py: the synthetic dataset generator.           *)
(*                                                                         *)
(* main() builds a SyntheticDatasetBuilder, scans the fonts, loads the     *)
(* texts, and calls generate_dataset, which shuffles and splits the text   *)
(* units, renders every (font, text unit, word) item with the sequential   *)
(* or the parallel (multiprocessing pool) engine, and writes the metadata  *)
(* streams and the corpus descriptor.                                      *)
(*                                                                         *)
(* Representation.  A font is a number 1..n (its position in self.fonts).  *)
(* A text unit is a number (its position in discovery order); WordsOf      *)
(* gives its number of words.  A caption is <<unit, w>>: w = 0 is the      *)
(* whole unit, w >= 1 its w-th word.  A split proportion p is the integer  *)
(* p * SplitDen; for the values drawn here the floating-point product      *)
(* n * p is exact, so int(n * p) is the truncated quotient.  A file name   *)
(* "%08d.png" is the sequence of its decimal digits.                       *)
(***************************************************************************)
EXTENDS Integers, Sequences, FiniteSets, TLC

\* ------------------------------------------------------------------ bounds
MaxFonts == 2
MaxTexts == 3
MaxWords == 2
MaxWorkers == 2
MaxTasks == 2
SplitDen == 2
MaxFamilies == 2
MaxCategories == 2
MaxFiles == 3
MaxLines == 2
MaxChars == 2

\* ------------------------------------------------------- program constants
\* the width of "{:08d}.png"
PadWidth == 8

NoneVal == -1

\* range(0, len(words), 5) and words[i:i+5]
ChunkSize == 5

\* the default of --font-size
DefaultHeight == 128

\* img_width = max(text_width, 10)
MinWidth == 10

Min(a, b) == IF a < b THEN a ELSE b
Max(a, b) == IF a > b THEN a ELSE b

SplitSet == {"train", "validation", "test"}

\* ----------------------------------------------------------- pure helpers
RECURSIVE Flatten(_)
Flatten(ss) == IF ss = <<>> THEN <<>> ELSE Head(ss) \o Flatten(Tail(ss))

RECURSIVE SumSeq(_)
SumSeq(s) == IF s = <<>> THEN 0 ELSE Head(s) + SumSeq(Tail(s))

\* the permutations of a sequence: what random.shuffle can leave in the list
Perms(s) ==
    LET n == Len(s)
        Bij == {f \in [1..n -> 1..n] : \A i, j \in 1..n : f[i] = f[j] => i = j}
    IN  {[i \in 1..n |-> s[f[i]]] : f \in Bij}

\* round(x) for x = num / den, den > 0: to the nearest integer, ties to even
IntRound(num, den) ==
    LET a == IF num >= 0 THEN num ELSE -num
        q == a \div den
        r == a % den
        m == IF 2 * r < den THEN q
             ELSE IF 2 * r > den THEN q + 1
             ELSE IF q % 2 = 0 THEN q ELSE q + 1
    IN  IF num >= 0 THEN m ELSE -m

\* int(x) for x = num / den, den > 0: truncation toward zero
IntTrunc(num, den) ==
    IF num >= 0 THEN num \div den ELSE -((-num) \div den)

\* Python's slice index normalisation for a list of length n
SliceIndex(i, n) == IF i < 0 THEN Max(0, n + i) ELSE Min(i, n)

\* s[lo:hi] with Python's rules (0-based, negative indices count from the end)
PySlice(s, lo, hi) ==
    SubSeq(s, SliceIndex(lo, Len(s)) + 1, SliceIndex(hi, Len(s)))

\* the number of words of text unit u: the corpus holds units of 1..MaxWords
\* words (load_texts never appends an empty chunk)
WordsOf(u) == (u % MaxWords) + 1

\* f"{n:08d}": the decimal digits of n, zero-padded on the left to PadWidth
RECURSIVE Digits(_)
Digits(n) == IF n < 10 THEN <<n>> ELSE Digits(n \div 10) \o <<n % 10>>

Pad08(n) ==
    LET d == Digits(n)
    IN  IF Len(d) >= PadWidth THEN d
        ELSE [i \in 1..(PadWidth - Len(d)) |-> 0] \o d

\* the source-group (book folder) of text unit u
BookOf(u) == (u + 1) \div 2

\* ------------------------------------------------------------------ state
VARIABLES
    pc,             \* where main() is
    mode,           \* self.mode: "lines" or "words"
    train_split,    \* self.train_split * SplitDen
    val_split,      \* self.val_split * SplitDen
    args_workers,   \* args.workers
    cpu_count,      \* mp.cpu_count()
    num_workers,    \* self.num_workers
    target_height,  \* args.font_size, passed on as target_height
    data_tree,      \* the text files under self.data_dir, as iterated
    render_task,    \* the text and the font of one render
    max_texts,      \* args.max_texts (NoneVal: not given)
    style,          \* self.style: "normal" or "bold"
    max_fonts_per_category,     \* self.max_fonts_per_category (NoneVal: None)
    font_tree,      \* the family folders under self.fonts_dir, as iterated
    fonts,          \* self.fonts: the positions 1..n of its records
    font_info,      \* the records of self.fonts
    font_stats,     \* the fonts_* counters of self.stats
    texts,          \* self.texts: the numbers of its units
    text_data,      \* the records of the loaded units, by number
    img,            \* what the render returned
    texts_to_use,   \* generate_dataset's local list
    train_texts, val_texts, test_texts,
    total_items,    \* the expected number of images
    tasks,          \* the parallel engine's task list
    dispatched,     \* how many tasks the pool has handed to workers
    running,        \* the chunks <<first, last>> workers hold
    results,        \* the parallel engine's collected results
    seq_i,          \* the sequential engine's position in its loops
    global_count,   \* global_train_count, global_val_count, global_test_count
    metadata,       \* train_metadata, val_metadata, test_metadata
    stats,          \* self.stats
    failed,         \* the items whose render returned None
    images,         \* the image paths written so far
    overwritten,    \* the image paths written more than once
    meta_files,     \* the metadata.jsonl streams on disk: <<split, records>>
    dataset_info,   \* dataset_info.json on disk (a set: empty when absent)
    errors,         \* the [ERROR] diagnostics printed
    success,        \* "[SUCCESS] Dataset generado correctamente!" was printed
    prev_tasks      \* the task list of the program's previous run, if any

vars == <<pc, mode, train_split, val_split, args_workers, cpu_count,
          num_workers, target_height, data_tree, render_task, max_texts, style,
          max_fonts_per_category, font_tree, fonts, font_info, font_stats,
          texts, text_data, img, texts_to_use, train_texts, val_texts,
          test_texts, total_items, tasks, dispatched, running, results, seq_i,
          global_count, metadata, stats, failed, images, overwritten,
          meta_files, dataset_info, errors, success, prev_tasks>>

\* what no step of one run changes: the arguments, and the previous run's plan
cfgVars == <<mode, train_split, val_split, args_workers, cpu_count,
             num_workers, target_height, data_tree, render_task, max_texts,
             style, max_fonts_per_category, font_tree, prev_tasks>>
\* self.fonts and what scan_fonts leaves with it
fontVars == <<fonts, font_info, font_stats>>
planVars == <<texts_to_use, train_texts, val_texts, test_texts, total_items>>
parVars == <<tasks, dispatched, running, results>>
seqVars == <<seq_i, global_count>>
diskVars == <<images, overwritten, meta_files, dataset_info>>

\* the inputs the model draws
Props == (-1)..(SplitDen + 1)
Modes == {"lines", "words"}
WorkerArgs == (-2)..MaxWorkers
CpuCounts == 1..MaxWorkers
MaxTextsArgs == {NoneVal} \cup (0..(MaxTexts - 1))

\* the setting taken as it is
EffectiveWorkersRaw(w, cpu) == w

\* main's "Determinar número de workers"
EffectiveWorkers(w, cpu) ==
    IF w = -1 THEN cpu ELSE IF w < 1 THEN 1 ELSE w

EmptyStats ==
    [images_generated |-> 0, lines_generated |-> 0, words_generated |-> 0,
     train_samples |-> 0, val_samples |-> 0, test_samples |-> 0]

EmptyMetadata == [train |-> <<>>, validation |-> <<>>, test |-> <<>>]
ZeroCounters == [train |-> 0, validation |-> 0, test |-> 0]

\* the key of self.stats that counts a split's samples
SamplesKey(split_name) ==
    IF split_name = "train" THEN "train_samples"
    ELSE IF split_name = "validation" THEN "val_samples" ELSE "test_samples"

\* ------------------------------------------------------- the work items
\* the whole unit in both modes
WordsToRenderWhole(u, md) == << <<u, 0>> >>

\* words_to_render of a text unit: its words in "words" mode, else the unit
WordsToRender(u, md) ==
    IF md = "words" THEN [w \in 1..WordsOf(u) |-> <<u, w>>] ELSE << <<u, 0>> >>

\* the items of one font and one split, in loop order
SplitItems(f, split_name, split_texts, md) ==
    Flatten([i \in 1..Len(split_texts) |->
        [w \in 1..Len(WordsToRender(split_texts[i], md)) |->
            [font |-> f, split_name |-> split_name, unit |-> split_texts[i],
             text |-> WordsToRender(split_texts[i], md)[w]]]])

\* the loops nested the other way: split, then font, then text, then word
LoopItemsSubsetMajor(fs, tr, va, te, md) ==
    Flatten([k \in 1..Len(fs) |-> SplitItems(fs[k], "train", tr, md)])
    \o Flatten([k \in 1..Len(fs) |-> SplitItems(fs[k], "validation", va, md)])
    \o Flatten([k \in 1..Len(fs) |-> SplitItems(fs[k], "test", te, md)])

\* the nested loops of both engines: font, then split, then text, then word
LoopItems(fs, tr, va, te, md) ==
    Flatten([k \in 1..Len(fs) |->
        SplitItems(fs[k], "train", tr, md)
        \o SplitItems(fs[k], "validation", va, md)
        \o SplitItems(fs[k], "test", te, md)])

\* img_filename: the counter, zero-padded
ImgFilename(n) == Pad08(n)

\* the increment forgotten
BumpNone(counters, split_name) == counters

\* one counter shared by the three splits
BumpShared(counters, split_name) == [sp \in DOMAIN counters |-> counters[sp] + 1]

\* counters[split_name] += 1
Bump(counters, split_name) == [counters EXCEPT ![split_name] = @ + 1]

\* every item named by its position in the whole list
AssignNamesGlobal(items, counters) ==
    [i \in DOMAIN items |->
        [font |-> items[i].font, split_name |-> items[i].split_name,
         split_dir |-> items[i].split_name, unit |-> items[i].unit,
         text |-> items[i].text, img_filename |-> ImgFilename(i - 1)]]

\* the task list: every item gets the file name of its split's counter
RECURSIVE AssignNames(_, _)
AssignNames(items, counters) ==
    IF items = <<>> THEN <<>>
    ELSE LET it == Head(items)
         IN  << [font |-> it.font, split_name |-> it.split_name,
                 split_dir |-> it.split_name, unit |-> it.unit,
                 text |-> it.text,
                 img_filename |-> ImgFilename(counters[it.split_name])] >>
             \o AssignNames(Tail(items), Bump(counters, it.split_name))

PlanTasks(fs, tr, va, te, md) ==
    AssignNames(LoopItems(fs, tr, va, te, md), ZeroCounters)

\* img_path = split_dir / img_filename
ImgPath(split_dir, img_filename) == <<split_dir, img_filename>>

ItemKey(it) == <<it.font, it.split_name, it.text>>

\* the metadata entry a successful render returns
WorkerEntry(task) ==
    [file_name |-> task.img_filename, text |-> task.text,
     font_name |-> task.font, source_book |-> BookOf(task.unit),
     split_name |-> task.split_name]

\* result.pop('split_name')
Popped(r) ==
    [file_name |-> r.file_name, text |-> r.text, font_name |-> r.font_name,
     source_book |-> r.source_book]

OptimalChunksize(ntasks, workers) == Max(1, ntasks \div (workers * 4))

\* what the sequential engine records, as (split, file name, caption), when
\* the items in bad fail to render: a failed item takes no file name
RECURSIVE SeqRecords(_, _, _)
SeqRecords(items, counters, bad) ==
    IF items = <<>> THEN {}
    ELSE LET it == Head(items)
         IN  IF ItemKey(it) \in bad
             THEN SeqRecords(Tail(items), counters, bad)
             ELSE {<<it.split_name, ImgFilename(counters[it.split_name]), it.text>>}
                  \cup SeqRecords(Tail(items), Bump(counters, it.split_name), bad)

\* what the parallel engine records when the items in bad fail to render:
\* every task keeps the file name the plan gave it
ParRecords(tasklist, bad) ==
    {<<tasklist[i].split_name, tasklist[i].img_filename, tasklist[i].text>> :
        i \in {k \in DOMAIN tasklist : ItemKey(tasklist[k]) \notin bad}}

\* ---------------------------------------------------------- file names
\* a file name is the sequence of its characters
Uppers == <<"A", "B", "C", "D", "E", "F", "G", "H", "I", "J", "K", "L", "M",
            "N", "O", "P", "Q", "R", "S", "T", "U", "V", "W", "X", "Y", "Z">>
Lowers == <<"a", "b", "c", "d", "e", "f", "g", "h", "i", "j", "k", "l", "m",
            "n", "o", "p", "q", "r", "s", "t", "u", "v", "w", "x", "y", "z">>

\* str.lower()
LowerChar(c) ==
    LET at == {i \in DOMAIN Uppers : Uppers[i] = c}
    IN  IF at = {} THEN c ELSE Lowers[CHOOSE i \in at : TRUE]
Lower(name) == [i \in DOMAIN name |-> LowerChar(name[i])]

\* "keyword in name"
Contains(name, keyword) ==
    \E i \in 1..(Len(name) - Len(keyword) + 1) :
        \A j \in 1..Len(keyword) : name[i + j - 1] = keyword[j]

\* fnmatch of "*" followed by a suffix (case-sensitive)
EndsWith(name, suffix) ==
    /\ Len(name) >= Len(suffix)
    /\ \A j \in 1..Len(suffix) : name[Len(name) - Len(suffix) + j] = suffix[j]

Ttf == <<".", "t", "t", "f">>
Otf == <<".", "o", "t", "f">>

KwBold == <<"b", "o", "l", "d">>
KwBd == <<"b", "d">>
KwHeavy == <<"h", "e", "a", "v", "y">>
KwBlack == <<"b", "l", "a", "c", "k">>
KwItalic == <<"i", "t", "a", "l", "i", "c">>
KwOblique == <<"o", "b", "l", "i", "q", "u", "e">>

\* the spec's bold markers, without 'bd'
BoldKeywordsNoBd == {KwBold, KwHeavy, KwBlack}

\* ['bold', 'bd', 'heavy', 'black']
BoldKeywords == {KwBold, KwBd, KwHeavy, KwBlack}

\* ['italic', 'oblique', 'bold', 'bd', 'heavy', 'black']
NotNormalKeywords == {KwItalic, KwOblique} \cup BoldKeywords

\* the branch that appends to bold_fonts
IsBoldFile(name) ==
    LET font_name_lower == Lower(name)
    IN  /\ \E keyword \in BoldKeywords : Contains(font_name_lower, keyword)
        /\ ~Contains(font_name_lower, KwItalic)
        /\ ~Contains(font_name_lower, KwOblique)

\* the elif branch, which appends to normal_fonts
IsNormalFile(name) ==
    LET font_name_lower == Lower(name)
    IN  /\ ~\E keyword \in BoldKeywords : Contains(font_name_lower, keyword)
        /\ ~\E keyword \in NotNormalKeywords : Contains(font_name_lower, keyword)

\* the files of the font trees drawn
Stem == <<"F", "a", "m", "i", "l", "y">>
NameRegular == Stem \o Ttf
NameBold == Stem \o <<"-", "B", "o", "l", "d">> \o Ttf
NameItalic == Stem \o <<"-", "I", "t", "a", "l", "i", "c">> \o Ttf
NameBoldItalic == Stem \o <<"-", "B", "o", "l", "d", "I", "t", "a", "l", "i", "c">> \o Ttf
NameHeavy == Stem \o <<"-", "H", "e", "a", "v", "y">> \o Otf
NameBlack == Stem \o <<"-", "B", "L", "A", "C", "K">> \o Ttf
NameOblique == Stem \o <<"-", "O", "b", "l", "i", "q", "u", "e">> \o Otf
NameBd == <<"a", "r", "i", "a", "l", "b", "d">> \o Ttf
NameReadme == <<"R", "E", "A", "D", "M", "E", ".", "t", "x", "t">>

\* the contents of a family folder, in directory order
FolderContents ==
    { <<NameRegular, NameBold>>,
      <<NameRegular>>,
      <<NameItalic>>,
      <<NameBd>>,
      <<NameOblique, NameReadme, NameBoldItalic, NameBlack, NameHeavy>>,
      <<NameReadme>> }

\* ------------------------------------------------------------- scan_fonts
\* list(font_dir.glob('*.ttf')) + list(font_dir.glob('*.otf')); pathlib's
\* glob swallows a PermissionError of the listing and yields nothing
FontFiles(font_dir) ==
    IF font_dir.listing = "denied" THEN <<>>
    ELSE SelectSeq(font_dir.files, LAMBDA name : EndsWith(name, Ttf))
         \o SelectSeq(font_dir.files, LAMBDA name : EndsWith(name, Otf))

NormalFonts(font_files) == SelectSeq(font_files, IsNormalFile)
BoldFonts(font_files) == SelectSeq(font_files, IsBoldFile)

\* the style bold served from the normal files
StyleFontsNormalOnly(normal_fonts, bold_fonts, st) == normal_fonts

\* the list the requested style picks from
StyleFonts(normal_fonts, bold_fonts, st) ==
    IF st = "bold" THEN bold_fonts ELSE normal_fonts

\* font_info of family folder k: the first file of the style's list
FontInfo(k, font_dir, st, style_fonts) ==
    [path |-> <<k, style_fonts[1]>>, name |-> k,
     category |-> font_dir.category, style |-> st]

EmptyScan ==
    [categories |-> <<>>, fonts_by_category |-> <<>>, fonts_with_bold |-> 0,
     fonts_without_bold |-> 0, fonts_skipped |-> 0, raised |-> FALSE]

\* fonts_by_category[category].append(font_info), a defaultdict(list) that
\* keeps its keys in insertion order
AppendFont(acc, category, info) ==
    IF \E i \in DOMAIN acc.categories : acc.categories[i] = category
    THEN LET i == CHOOSE j \in DOMAIN acc.categories : acc.categories[j] = category
         IN  [acc EXCEPT !.fonts_by_category[i] = Append(@, info)]
    ELSE [acc EXCEPT !.categories = Append(@, category),
                     !.fonts_by_category = Append(@, <<info>>)]

\* the skipped family not counted
CountSkippedNot(acc) == acc

\* self.stats['fonts_skipped'] += 1
CountSkipped(acc) == [acc EXCEPT !.fonts_skipped = @ + 1]

\* the body of "for font_dir in category_dir.iterdir()" for family folder k
ScanFontDir(acc, k, font_dir, st) ==
    IF font_dir.listing = "error" THEN [acc EXCEPT !.raised = TRUE]
    ELSE LET font_files == FontFiles(font_dir)
             normal_fonts == NormalFonts(font_files)
             bold_fonts == BoldFonts(font_files)
             has_bold == Len(bold_fonts) > 0
             style_fonts == StyleFonts(normal_fonts, bold_fonts, st)
             counted == IF has_bold
                        THEN [acc EXCEPT !.fonts_with_bold = @ + 1]
                        ELSE [acc EXCEPT !.fonts_without_bold = @ + 1]
         IN  IF font_files = <<>> THEN acc
             ELSE IF style_fonts # <<>>
             THEN AppendFont(counted, font_dir.category,
                             FontInfo(k, font_dir, st, style_fonts))
             ELSE CountSkipped(counted)

\* the loops over the category folders and their family folders; an
\* exception of a listing ends them
RECURSIVE ScanTree(_, _, _, _)
ScanTree(tree, k, st, acc) ==
    IF k > Len(tree) \/ acc.raised THEN acc
    ELSE ScanTree(tree, k + 1, st, ScanFontDir(acc, k, tree[k], st))

\* the limit dropped: every qualifying family is used
SelectedFontsAll(category_fonts, cap) == {category_fonts}

\* "Aplicar límite por categoría": what selected_fonts can be
SelectedFonts(category_fonts, cap) ==
    IF cap # NoneVal /\ Len(category_fonts) > cap
    THEN {PySlice(p, 0, cap) : p \in Perms(category_fonts)}
    ELSE {category_fonts}

\* self.fonts.extend(selected_fonts) over the categories: what self.fonts
\* can be
RECURSIVE ApplyLimit(_, _)
ApplyLimit(by_category, cap) ==
    IF by_category = <<>> THEN {<<>>}
    ELSE {sel \o rest : sel \in SelectedFonts(Head(by_category), cap),
                        rest \in ApplyLimit(Tail(by_category), cap)}

EmptyFontStats ==
    [fonts_with_bold |-> 0, fonts_without_bold |-> 0, fonts_used |-> 0,
     fonts_skipped |-> 0]

FontStats(acc, used) ==
    [fonts_with_bold |-> acc.fonts_with_bold,
     fonts_without_bold |-> acc.fonts_without_bold,
     fonts_used |-> used, fonts_skipped |-> acc.fonts_skipped]

\* -------------------------------------------------------------- load_texts
\* range(0, n, step)
RangeStarts(n, step) == [c \in 1..((n + step - 1) \div step) |-> (c - 1) * step]

\* the chunks of only the first ChunkSize words of a line
ChunksFirstOnly(words) == << PySlice(words, 0, ChunkSize) >>

\* [words[i:i+5] for i in range(0, len(words), 5)]
Chunks(words) ==
    LET starts == RangeStarts(Len(words), ChunkSize)
    IN  [c \in DOMAIN starts |-> PySlice(words, starts[c], starts[c] + ChunkSize)]

\* the units a line yields: one per chunk that is not empty
LineUnits(txt_file, k, line) ==
    LET chunks == SelectSeq(Chunks(line), LAMBDA chunk : chunk # <<>>)
    IN  [c \in DOMAIN chunks |->
            [text |-> chunks[c], book |-> txt_file.book, file |-> k]]

\* the units of text file k: of its lines that are not empty after strip(),
\* in order; an exception of open() or read() is caught and the file
\* yields nothing
FileUnits(txt_file, k) ==
    IF ~txt_file.readable THEN <<>>
    ELSE LET lines == SelectSeq(txt_file.lines, LAMBDA line : line # <<>>)
         IN  Flatten([l \in DOMAIN lines |-> LineUnits(txt_file, k, lines[l])])

\* the loops ended by the first file that cannot be read
LoadTreeUntilError(tree) ==
    LET bad == {k \in DOMAIN tree : ~tree[k].readable}
        last == IF bad = {} THEN Len(tree)
                ELSE (CHOOSE k \in bad : \A o \in bad : k <= o) - 1
    IN  Flatten([k \in 1..last |-> FileUnits(tree[k], k)])

\* the loops over the book folders and their text files
LoadTree(tree) == Flatten([k \in DOMAIN tree |-> FileUnits(tree[k], k)])

\* line l of file k, of w words: a word is <<file, line, position>>
Line(k, l, w) == [i \in 1..w |-> <<k, l, i>>]

\* a text file
TxtFile(book, lines, readable) ==
    [book |-> book, lines |-> lines, readable |-> readable]

\* the text tree that loads as the units 1..n: one file per book, unit u
\* a line of WordsOf(u) words of book BookOf(u)
PlainData(n) ==
    [b \in 1..((n + 1) \div 2) |->
        TxtFile(b, [l \in 1..(IF 2 * b <= n THEN 2 ELSE 1) |->
                       Line(b, l, WordsOf(2 * (b - 1) + l))], TRUE)]

\* no image, and no render looked at on its own
NoImage == [ok |-> FALSE, width |-> 0, height |-> 0]
NoTask == <<>>

\* ------------------------------- _generate_single_image, generate_image
\* A render is looked at with a text of task.text characters and a font
\* file that the library loads or not (task.loads), whose glyphs advance
\* task.advance tenths and rise task.ascent tenths of the font size, and
\* whose box starts at (task.left, task.top).

\* ImageFont.truetype(path, size): None stands for the exception
TrueType(task, font_size) ==
    IF task.loads /\ font_size >= 1 THEN font_size ELSE NoneVal

\* temp_draw.textbbox((0, 0), text, font=font)
TextBBox(task, font) ==
    IF task.text = 0 THEN <<0, 0, 0, 0>>
    ELSE <<task.left, task.top,
           task.left + task.text * ((font * task.advance) \div 10),
           task.top + ((font * task.ascent) \div 10)>>

\* the box the image is made from: the first measure, then the rescaled
\* one when the text has a height; the empty tuple stands for an exception
Measure(task, height) ==
    LET font_size == IntTrunc(height * 7, 10)
        font == TrueType(task, font_size)
    IN  IF font = NoneVal THEN <<>>
        ELSE LET bbox == TextBBox(task, font)
                 text_height == bbox[4] - bbox[2]
             IN  IF text_height > 0
                 THEN LET font_size2 ==
                              IntTrunc(font_size * height * 8, 10 * text_height)
                          font2 == TrueType(task, font_size2)
                      IN  IF font2 = NoneVal THEN <<>>
                          ELSE TextBBox(task, font2)
                 ELSE bbox

\* the width taken as measured
ImgWidthNoFloor(text_width) == text_width

\* img_width = max(text_width, 10)
ImgWidth(text_width) == Max(text_width, MinWidth)

\* the image of generate_image, NoImage for None
GenerateImage(task, height) ==
    LET bbox == Measure(task, height)
    IN  IF bbox = <<>> \/ height < 0 \/ ~task.draws THEN NoImage
        ELSE [ok |-> TRUE, width |-> ImgWidth(bbox[3] - bbox[1]),
              height |-> height]

\* the image _generate_single_image leaves on disk, NoImage for None
SingleImage(task, height) ==
    IF task.saves THEN GenerateImage(task, height) ELSE NoImage

\* generate_image(text, font_info, target_height)
generate_image ==
    /\ pc = "render"
    /\ img' = GenerateImage(render_task, target_height)
    /\ pc' = "rendered"
    /\ UNCHANGED <<cfgVars, fontVars, texts, text_data, planVars, parVars,
                   seqVars, metadata, stats, failed, diskVars, errors, success>>

\* _generate_single_image(task, target_height)
generate_single_image ==
    /\ pc = "render"
    /\ img' = SingleImage(render_task, target_height)
    /\ pc' = "rendered"
    /\ UNCHANGED <<cfgVars, fontVars, texts, text_data, planVars, parVars,
                   seqVars, metadata, stats, failed, diskVars, errors, success>>

\* ------------------------------------------------------------- main, setup
\* the text units generate_dataset would use of the first n loaded ones
UsedCount(n, m) == IF m = NoneVal \/ m = 0 THEN n ELSE Min(m, n)

\* the number of items one font contributes for the units 1..n
ItemsPerFont(n, md) ==
    IF md = "words" THEN SumSeq([u \in 1..n |-> WordsOf(u)]) ELSE n

\* the arguments main parses, num_workers as main determines it
Arguments ==
    /\ mode \in Modes
    /\ train_split \in Props
    /\ val_split \in Props
    /\ args_workers = -1
    /\ cpu_count \in CpuCounts
    /\ num_workers = EffectiveWorkers(args_workers, cpu_count)
    /\ max_texts \in MaxTextsArgs
    /\ target_height = DefaultHeight

\* the arguments left at their defaults, with train 0.5 and validation 0
DefaultArguments ==
    /\ mode = "lines"
    /\ train_split = 1
    /\ val_split = 0
    /\ args_workers = 1
    /\ cpu_count = 1
    /\ num_workers = EffectiveWorkers(args_workers, cpu_count)
    /\ max_texts = NoneVal
    /\ target_height = DefaultHeight


\* what __init__ leaves, and the locals of a generate_dataset not yet called
Constructed ==
    /\ img = NoImage
    /\ texts_to_use = <<>>
    /\ train_texts = <<>>
    /\ val_texts = <<>>
    /\ test_texts = <<>>
    /\ total_items = 0
    /\ tasks = <<>>
    /\ dispatched = 0
    /\ running = {}
    /\ results = <<>>
    /\ seq_i = 0
    /\ global_count = ZeroCounters
    /\ metadata = EmptyMetadata
    /\ stats = EmptyStats
    /\ failed = {}
    /\ images = {}
    /\ overwritten = {}
    /\ meta_files = {}
    /\ dataset_info = {}
    /\ errors = {}
    /\ success = FALSE

\* a family folder
Folder(category, files, listing) ==
    [category |-> category, files |-> files, listing |-> listing]

\* n family folders of one category, each with a regular and a bold file
PlainTree(n) == [k \in 1..n |-> Folder(1, <<NameRegular, NameBold>>, "ok")]

\* the font trees of the whole program's runs: plain folders, and folders
\* whose listing raises
MainTrees ==
    UNION {[1..n -> {Folder(1, <<NameRegular, NameBold>>, "ok"),
                     Folder(1, <<NameRegular, NameBold>>, "error")}] :
              n \in 0..MaxFonts}

\* main up to the builder's construction
Init ==
    /\ pc = "scan"
    /\ Arguments
    /\ style = "normal"
    /\ max_fonts_per_category = NoneVal
    /\ font_tree \in MainTrees
    /\ fonts = <<>>
    /\ font_info = <<>>
    /\ font_stats = EmptyFontStats
    /\ data_tree \in {PlainData(n) : n \in 0..MaxTexts}
    /\ texts = <<>>
    /\ text_data = <<>>
    /\ render_task = NoTask
    /\ prev_tasks = {}
    /\ Constructed

\* scan_fonts: leaves the usable fonts in self.fonts
scan_fonts ==
    /\ pc = "scan"
    /\ LET acc == ScanTree(font_tree, 1, style, EmptyScan)
       IN  /\ ~acc.raised
           /\ \E sel \in ApplyLimit(acc.fonts_by_category, max_fonts_per_category) :
                /\ font_info' = sel
                /\ fonts' = [i \in 1..Len(sel) |-> i]
                /\ font_stats' = FontStats(acc, Len(sel))
    /\ pc' = "load"
    /\ UNCHANGED <<cfgVars, texts, planVars, parVars, seqVars, metadata,
                   stats, failed, diskVars, errors, success,
                   text_data, img>>

\* scan_fonts when a listing raises: nothing catches the exception, and the
\* program ends with it
scan_fonts_raises ==
    /\ pc = "scan"
    /\ LET acc == ScanTree(font_tree, 1, style, EmptyScan)
       IN  /\ acc.raised
           /\ font_stats' = FontStats(acc, 0)
    /\ pc' = "crashed"
    /\ UNCHANGED <<cfgVars, fonts, font_info, texts, planVars, parVars,
                   seqVars, metadata, stats, failed, diskVars, errors, success,
                   text_data, img>>

\* load_texts: leaves the text units in self.texts, in discovery order
load_texts ==
    /\ pc = "load"
    /\ LET units == LoadTree(data_tree)
       IN  /\ Len(fonts) * ItemsPerFont(UsedCount(Len(units), max_texts), mode)
                <= MaxTasks
           /\ text_data' = units
           /\ texts' = [i \in 1..Len(units) |-> i]
    /\ pc' = "generate"
    /\ UNCHANGED <<cfgVars, fontVars, planVars, parVars, seqVars, metadata,
                   stats, failed, diskVars, errors, success, img>>

\* ------------------------------------------------------- generate_dataset
\* "if not self.fonts: ... return"
generate_dataset_no_fonts ==
    /\ pc = "generate"
    /\ fonts = <<>>
    /\ errors' = errors \cup {"No hay fuentes disponibles"}
    /\ pc' = "summary"
    /\ UNCHANGED <<cfgVars, fontVars, texts, planVars, parVars, seqVars, metadata,
                   stats, failed, diskVars, success,
                   text_data, img>>

\* the check without its return: the error is printed and the run goes on
generate_dataset_no_texts_goes_on ==
    /\ pc = "generate"
    /\ fonts # <<>>
    /\ texts = <<>>
    /\ errors' = errors \cup {"No hay textos disponibles"}
    /\ pc' = "split"
    /\ UNCHANGED <<cfgVars, fontVars, texts, planVars, parVars, seqVars, metadata,
                   stats, failed, diskVars, success,
                   text_data, img>>

\* "if not self.texts: ... return"
generate_dataset_no_texts ==
    /\ pc = "generate"
    /\ fonts # <<>>
    /\ texts = <<>>
    /\ errors' = errors \cup {"No hay textos disponibles"}
    /\ pc' = "summary"
    /\ UNCHANGED <<cfgVars, fontVars, texts, planVars, parVars, seqVars, metadata,
                   stats, failed, diskVars, success,
                   text_data, img>>

\* "if max_texts": None and 0 are both false
Truthy(m) == m # NoneVal /\ m # 0

\* the last max_texts units kept
TruncateLast(ts, m) ==
    IF Truthy(m) THEN PySlice(ts, Max(0, Len(ts) - m), Len(ts)) ELSE ts

\* self.texts[:max_texts] if max_texts else self.texts
Truncate(ts, m) == IF Truthy(m) THEN PySlice(ts, 0, m) ELSE ts

\* the truncation and the shuffle both done on self.texts itself
generate_dataset_shuffle_in_place ==
    /\ pc = "generate"
    /\ fonts # <<>>
    /\ texts # <<>>
    /\ \E p \in Perms(Truncate(texts, max_texts)) :
         /\ texts_to_use' = p
         /\ texts' = p
    /\ pc' = "split"
    /\ UNCHANGED <<cfgVars, fontVars, train_texts, val_texts, test_texts,
                   total_items, parVars, seqVars, metadata, stats, failed,
                   diskVars, errors, success,
                   text_data, img>>

\* the truncation and random.shuffle(texts_to_use); without a maximum
\* texts_to_use is self.texts itself, which the shuffle then permutes
generate_dataset_shuffle ==
    /\ pc = "generate"
    /\ fonts # <<>>
    /\ texts # <<>>
    /\ \E p \in Perms(Truncate(texts, max_texts)) :
         /\ texts_to_use' = p
         /\ texts' = IF Truthy(max_texts) THEN texts ELSE p
    /\ pc' = "split"
    /\ UNCHANGED <<cfgVars, fontVars, train_texts, val_texts, test_texts,
                   total_items, parVars, seqVars, metadata, stats, failed,
                   diskVars, errors, success,
                   text_data, img>>

\* train_end = int(n_texts * self.train_split)
TrainEnd(n, tr) == IntTrunc(n * tr, SplitDen)

\* val_end = train_end + int(n_texts * self.val_split)
ValEnd(n, tr, va) == TrainEnd(n, tr) + IntTrunc(n * va, SplitDen)

TrainTexts(ts, tr) == PySlice(ts, 0, TrainEnd(Len(ts), tr))
ValTexts(ts, tr, va) ==
    PySlice(ts, TrainEnd(Len(ts), tr), ValEnd(Len(ts), tr, va))
TestTexts(ts, tr, va) == PySlice(ts, ValEnd(Len(ts), tr, va), Len(ts))

\* "Calcular total de items a procesar"
TotalItems(ts, fs, md) ==
    IF md = "words"
    THEN SumSeq([i \in 1..Len(ts) |-> Len(WordsToRender(ts[i], "words"))]) * Len(fs)
    ELSE Len(ts) * Len(fs)

\* the split of the shuffled units, and the choice of the engine
generate_dataset_split ==
    /\ pc = "split"
    /\ train_texts' = TrainTexts(texts_to_use, train_split)
    /\ val_texts' = ValTexts(texts_to_use, train_split, val_split)
    /\ test_texts' = TestTexts(texts_to_use, train_split, val_split)
    /\ total_items' = TotalItems(texts_to_use, fonts, mode)
    /\ pc' = IF num_workers > 1 THEN "parallel" ELSE "sequential"
    /\ UNCHANGED <<cfgVars, fontVars, texts, texts_to_use, parVars, seqVars,
                   metadata, stats, failed, diskVars, errors, success,
                   text_data, img>>

\* ------------------------------------------------------ the disk, the stats
\* img.save(img_path) for a set of paths
SaveImages(paths) ==
    /\ images' = images \cup paths
    /\ overwritten' = overwritten \cup (paths \cap images)

\* the descriptor with the planned number of items as its total
DatasetInfoPlanned(st, fs, md) ==
    [train |-> st.train_samples, validation |-> st.val_samples,
     test |-> st.test_samples, total_samples |-> total_items,
     num_fonts |-> Len(fs), mode |-> md]

\* _save_metadata_jsonl for the three splits, then _create_dataset_info
DatasetInfo(st, fs, md) ==
    [train |-> st.train_samples, validation |-> st.val_samples,
     test |-> st.test_samples, total_samples |-> st.images_generated,
     num_fonts |-> Len(fs), mode |-> md]

SaveMetadata(meta, st) ==
    /\ meta_files' = {<<sp, meta[sp]>> : sp \in SplitSet}
    /\ dataset_info' = {DatasetInfo(st, fonts, mode)}

\* --------------------------------------------- _generate_dataset_parallel
\* the task list is built, with every file name, before the pool exists
parallel_plan ==
    /\ pc = "parallel"
    /\ tasks' = PlanTasks(fonts, train_texts, val_texts, test_texts, mode)
    /\ dispatched' = 0
    /\ pc' = "pool"
    /\ UNCHANGED <<cfgVars, fontVars, texts, planVars, running, results, seqVars,
                   metadata, stats, failed, diskVars, errors, success,
                   text_data, img>>

\* the file names given at dispatch, from the position in the task list
worker_take_names_late ==
    /\ pc = "pool"
    /\ Cardinality(running) < num_workers
    /\ dispatched < Len(tasks)
    /\ LET last == Min(dispatched + OptimalChunksize(Len(tasks), num_workers),
                       Len(tasks))
       IN  /\ running' = running \cup {<<dispatched + 1, last>>}
           /\ dispatched' = last
           /\ tasks' = [i \in DOMAIN tasks |->
                          IF i > dispatched /\ i <= last
                          THEN [tasks[i] EXCEPT !.img_filename = ImgFilename(i - 1)]
                          ELSE tasks[i]]
    /\ UNCHANGED <<pc, cfgVars, fontVars, texts, planVars, results,
                   seqVars, metadata, stats, failed, diskVars, errors, success,
                   text_data, img>>

\* a free worker of the pool takes the next chunk of the task list
worker_take ==
    /\ pc = "pool"
    /\ Cardinality(running) < num_workers
    /\ dispatched < Len(tasks)
    /\ LET last == Min(dispatched + OptimalChunksize(Len(tasks), num_workers),
                       Len(tasks))
       IN  /\ running' = running \cup {<<dispatched + 1, last>>}
           /\ dispatched' = last
    /\ UNCHANGED <<pc, cfgVars, fontVars, texts, planVars, tasks, results,
                   seqVars, metadata, stats, failed, diskVars, errors, success,
                   text_data, img>>

\* the tasks of a chunk that rendered, in task order
ChunkDone(ch, ok) ==
    SelectSeq([i \in 1..(ch[2] - ch[1] + 1) |-> ch[1] + i - 1],
              LAMBDA i : i \in ok)

\* a worker runs _generate_single_image on its chunk: every task either saves
\* its image and returns its metadata entry, or fails and returns None; the
\* main process appends the entries that are not None to results
worker_finish ==
    /\ pc = "pool"
    /\ \E ch \in running : \E ok \in SUBSET (ch[1]..ch[2]) :
         LET done == ChunkDone(ch, ok)
         IN  /\ SaveImages({ImgPath(tasks[i].split_dir, tasks[i].img_filename) :
                               i \in ok})
             /\ results' = results \o [k \in 1..Len(done) |-> WorkerEntry(tasks[done[k]])]
             /\ failed' = failed \cup {ItemKey(tasks[i]) : i \in (ch[1]..ch[2]) \ ok}
             /\ running' = running \ {ch}
    /\ UNCHANGED <<pc, cfgVars, fontVars, texts, planVars, tasks, dispatched,
                   seqVars, metadata, stats, meta_files, dataset_info, errors,
                   success,
                   text_data, img>>

\* the k-th result taken for the k-th task's: right only when the results
\* arrive in submission order
ResultsOfByPosition(rs, split_name) ==
    LET idx == SelectSeq([k \in 1..Len(rs) |-> k],
                         LAMBDA k : tasks[k].split_name = split_name)
    IN  [j \in 1..Len(idx) |-> Popped(rs[idx[j]])]

\* the entries of results that go to one metadata list
ResultsOf(rs, split_name) ==
    LET goes(r) == IF r.split_name = "train" THEN "train"
                   ELSE IF r.split_name = "validation" THEN "validation"
                   ELSE "test"
        sel == SelectSeq(rs, LAMBDA r : goes(r) = split_name)
    IN  [k \in 1..Len(sel) |-> Popped(sel[k])]

\* "Organizar metadata por split" and "Actualizar estadísticas"
parallel_organize ==
    /\ pc = "pool"
    /\ dispatched = Len(tasks)
    /\ running = {}
    /\ metadata' = [sp \in SplitSet |-> metadata[sp] \o ResultsOf(results, sp)]
    /\ stats' = [stats EXCEPT
                   !.images_generated = Len(results),
                   !.train_samples = Len(metadata'["train"]),
                   !.val_samples = Len(metadata'["validation"]),
                   !.test_samples = Len(metadata'["test"]),
                   !.words_generated = IF mode = "words" THEN Len(results) ELSE @,
                   !.lines_generated = IF mode = "words" THEN @ ELSE Len(results)]
    /\ pc' = "save"
    /\ UNCHANGED <<cfgVars, fontVars, texts, planVars, parVars, seqVars, failed,
                   diskVars, errors, success,
                   text_data, img>>

\* ------------------------------------------- _generate_dataset_sequential
\* the item the sequential loops are at
SeqItems == LoopItems(fonts, train_texts, val_texts, test_texts, mode)

\* generate_image returned None: "pbar.update(1); continue"
sequential_render_none ==
    /\ pc = "sequential"
    /\ seq_i < Len(SeqItems)
    /\ failed' = failed \cup {ItemKey(SeqItems[seq_i + 1])}
    /\ seq_i' = seq_i + 1
    /\ UNCHANGED <<pc, cfgVars, fontVars, texts, planVars, parVars, global_count,
                   metadata, stats, diskVars, errors, success,
                   text_data, img>>

\* the entry with the unit in the place of its book
SeqEntryUnit(it, img_filename) ==
    [file_name |-> img_filename, text |-> it.text, font_name |-> it.font,
     source_book |-> it.unit]

\* the entry the sequential engine appends for an item
SeqEntry(it, img_filename) ==
    [file_name |-> img_filename, text |-> it.text, font_name |-> it.font,
     source_book |-> BookOf(it.unit)]

\* generate_image returned an image: it is named by the split's global count,
\* saved, and its entry appended to the split's metadata
sequential_render ==
    /\ pc = "sequential"
    /\ seq_i < Len(SeqItems)
    /\ LET it == SeqItems[seq_i + 1]
           img_filename == ImgFilename(global_count[it.split_name])
       IN  /\ global_count' = Bump(global_count, it.split_name)
           /\ SaveImages({ImgPath(it.split_name, img_filename)})
           /\ metadata' = [metadata EXCEPT
                             ![it.split_name] = Append(@, SeqEntry(it, img_filename))]
           /\ stats' = [stats EXCEPT
                          ![SamplesKey(it.split_name)] = @ + 1,
                          !.images_generated = @ + 1,
                          !.words_generated = IF mode = "words" THEN @ + 1 ELSE @,
                          !.lines_generated = IF mode = "words" THEN @ ELSE @ + 1]
    /\ seq_i' = seq_i + 1
    /\ UNCHANGED <<pc, cfgVars, fontVars, texts, planVars, parVars, failed,
                   meta_files, dataset_info, errors, success,
                   text_data, img>>

\* generate_image returned an image, the split's count and sample counter
\* were advanced, and img.save(img_path) raises: the call is outside every
\* try, so the exception leaves the engine, generate_dataset and main
sequential_save_raises ==
    /\ pc = "sequential"
    /\ seq_i < Len(SeqItems)
    /\ LET it == SeqItems[seq_i + 1]
       IN  /\ global_count' = Bump(global_count, it.split_name)
           /\ stats' = [stats EXCEPT ![SamplesKey(it.split_name)] = @ + 1]
    /\ pc' = "crashed"
    /\ UNCHANGED <<cfgVars, fontVars, texts, planVars, parVars, seq_i,
                   metadata, failed, diskVars, errors, success,
                   text_data, img>>

\* the end of the loops: the sequential engine saves the metadata itself
sequential_finish ==
    /\ pc = "sequential"
    /\ seq_i = Len(SeqItems)
    /\ SaveMetadata(metadata, stats)
    /\ pc' = "save"
    /\ UNCHANGED <<cfgVars, fontVars, texts, planVars, parVars, seqVars, metadata,
                   stats, failed, images, overwritten, errors, success,
                   text_data, img>>

\* ------------------------------------------------- back in generate_dataset
\* "Guardar metadata.jsonl para cada split" and "Crear dataset_info.json"
generate_dataset_save ==
    /\ pc = "save"
    /\ SaveMetadata(metadata, stats)
    /\ pc' = "summary"
    /\ UNCHANGED <<cfgVars, fontVars, texts, planVars, parVars, seqVars, metadata,
                   stats, failed, images, overwritten, errors, success,
                   text_data, img>>

\* ------------------------------------------------------------ back in main
\* builder.generate_summary(), then
\* print("[SUCCESS] Dataset generado correctamente!")
generate_summary ==
    /\ pc = "summary"
    /\ success' = TRUE
    /\ pc' = "done"
    /\ UNCHANGED <<cfgVars, fontVars, texts, planVars, parVars, seqVars, metadata,
                   stats, failed, diskVars, errors,
                   text_data, img>>

Next ==
    \/ scan_fonts
    \/ scan_fonts_raises
    \/ load_texts
    \/ generate_dataset_no_fonts
    \/ generate_dataset_no_texts
    \/ generate_dataset_shuffle
    \/ generate_dataset_split
    \/ parallel_plan
    \/ worker_take
    \/ worker_finish
    \/ parallel_organize
    \/ sequential_render_none
    \/ sequential_render
    \/ sequential_save_raises
    \/ sequential_finish
    \/ generate_dataset_save
    \/ generate_summary

Spec == Init /\ [][Next]_vars

\* the runs with a valid split and no maximum of texts, in which the
\* program never stops between two steps that it can take
LiveInit == Init /\ train_split = 1 /\ val_split = 0 /\ max_texts = NoneVal

LiveSpec == LiveInit /\ [][Next]_vars /\ WF_vars(Next)

\* the runs with a valid split and no maximum of texts, under every
\* setting of --workers
WorkersInit ==
    /\ pc = "scan"
    /\ mode \in Modes
    /\ train_split = 1
    /\ val_split = 0
    /\ args_workers \in WorkerArgs
    /\ cpu_count \in CpuCounts
    /\ num_workers = EffectiveWorkers(args_workers, cpu_count)
    /\ max_texts = NoneVal
    /\ target_height = DefaultHeight
    /\ style = "normal"
    /\ max_fonts_per_category = NoneVal
    /\ font_tree \in MainTrees
    /\ fonts = <<>>
    /\ font_info = <<>>
    /\ font_stats = EmptyFontStats
    /\ data_tree \in {PlainData(n) : n \in 0..MaxTexts}
    /\ texts = <<>>
    /\ text_data = <<>>
    /\ render_task = NoTask
    /\ prev_tasks = {}
    /\ Constructed

WorkersSpec == WorkersInit /\ [][Next]_vars

\* ------------------------------------------------- the planner on its own
\* generate_dataset up to the task list, for every catalog and corpus
\* scan_fonts and load_texts can leave
PlanInit ==
    /\ pc = "generate"
    /\ Arguments
    /\ style = "normal"
    /\ max_fonts_per_category = NoneVal
    /\ font_tree \in {PlainTree(n) : n \in 0..MaxFonts}
    /\ font_info \in ApplyLimit(ScanTree(font_tree, 1, style, EmptyScan).fonts_by_category,
                               max_fonts_per_category)
    /\ fonts = [i \in 1..Len(font_info) |-> i]
    /\ font_stats = FontStats(ScanTree(font_tree, 1, style, EmptyScan), Len(font_info))
    /\ data_tree \in {PlainData(n) : n \in 0..MaxTexts}
    /\ text_data = LoadTree(data_tree)
    /\ texts = [i \in 1..Len(text_data) |-> i]
    /\ render_task = NoTask
    /\ prev_tasks = {}
    /\ Constructed

PlanNext ==
    \/ generate_dataset_no_fonts
    \/ generate_dataset_no_texts
    \/ generate_dataset_shuffle
    \/ generate_dataset_split
    \/ parallel_plan

PlanSpec == PlanInit /\ [][PlanNext]_vars

\* ------------------------------------------------- the scanner on its own
\* the family folders a font tree can hold
Folders ==
    {Folder(c, fs, l) : c \in 1..MaxCategories, fs \in FolderContents, l \in {"ok"}}
    \cup {Folder(c, <<NameRegular, NameBold>>, l) :
             c \in 1..MaxCategories, l \in {"denied", "error"}}

\* the font trees: the family folders of a category folder are iterated
\* together, category after category
FontTrees ==
    {t \in UNION {[1..n -> Folders] : n \in 0..MaxFamilies} :
        \A i \in 1..(Len(t) - 1) : t[i].category <= t[i + 1].category}

Styles == {"normal", "bold"}

\* --max-fonts-per-category: absent, negative, or 0 and more
CapArgs == {NoneVal, -2} \cup (0..(MaxFamilies - 1))

\* main up to scan_fonts, for every font tree, style and limit; the other
\* arguments have no part in the scan
ScanInit ==
    /\ pc = "scan"
    /\ DefaultArguments
    /\ style \in Styles
    /\ max_fonts_per_category \in CapArgs
    /\ font_tree \in FontTrees
    /\ fonts = <<>>
    /\ font_info = <<>>
    /\ font_stats = EmptyFontStats
    /\ data_tree = <<>>
    /\ texts = <<>>
    /\ text_data = <<>>
    /\ render_task = NoTask
    /\ prev_tasks = {}
    /\ Constructed

ScanNext == scan_fonts \/ scan_fonts_raises

ScanSpec == ScanInit /\ [][ScanNext]_vars

\* the text loader alone, on text trees of up to MaxFiles files of up to
\* MaxLines lines each: a line is blank, or of one word, or of exactly one
\* full chunk, or of two full chunks and a word
LineLengths == {0, 1, ChunkSize, 2 * ChunkSize + 1}

LinesOf(k) ==
    UNION {[1..n -> {Line(k, 0, w) : w \in LineLengths}] : n \in 0..MaxLines}

\* the files that can stand at position k: line l of the file holds the
\* words <<k, l, 1>>, <<k, l, 2>>, ...
TxtFiles(k) ==
    {TxtFile(k, [l \in DOMAIN ls |-> Line(k, l, Len(ls[l]))], TRUE) : ls \in LinesOf(k)}
        \cup {TxtFile(k, <<Line(k, 1, 1)>>, FALSE)}

RECURSIVE TreesOf(_)
TreesOf(n) ==
    IF n = 0 THEN {<<>>}
    ELSE {Append(t, f) : t \in TreesOf(n - 1), f \in TxtFiles(n)}

DataTrees == UNION {TreesOf(n) : n \in 0..MaxFiles}

LoadInit ==
    /\ pc = "load"
    /\ DefaultArguments
    /\ style = "normal"
    /\ max_fonts_per_category = NoneVal
    /\ font_tree = <<>>
    /\ fonts = <<>>
    /\ font_info = <<>>
    /\ font_stats = EmptyFontStats
    /\ data_tree \in DataTrees
    /\ texts = <<>>
    /\ text_data = <<>>
    /\ render_task = NoTask
    /\ prev_tasks = {}
    /\ Constructed

LoadNext == load_texts

LoadSpec == LoadInit /\ [][LoadNext]_vars

\* the render alone
Heights == {-1, 0, 1, MinWidth, DefaultHeight}

RenderTasks ==
    [text : 0..MaxChars, loads : BOOLEAN, advance : {1, 6}, ascent : {0, 7},
     left : {0, 1}, top : {0, 1}, draws : BOOLEAN, saves : BOOLEAN]

RenderInit ==
    /\ pc = "render"
    /\ mode = "lines"
    /\ train_split = 1
    /\ val_split = 0
    /\ args_workers = 1
    /\ cpu_count = 1
    /\ num_workers = EffectiveWorkers(args_workers, cpu_count)
    /\ max_texts = NoneVal
    /\ target_height \in Heights
    /\ style = "normal"
    /\ max_fonts_per_category = NoneVal
    /\ font_tree = <<>>
    /\ fonts = <<>>
    /\ font_info = <<>>
    /\ font_stats = EmptyFontStats
    /\ data_tree = <<>>
    /\ texts = <<>>
    /\ text_data = <<>>
    /\ render_task \in RenderTasks
    /\ prev_tasks = {}
    /\ Constructed

RenderNext == generate_image \/ generate_single_image

RenderSpec == RenderInit /\ [][RenderNext]_vars

\* ------------------------------------------------------ the program re-run
\* the program is started again on the same font tree, text tree and
\* arguments: the texts are loaded again in discovery order, and the
\* planner's locals are fresh; the first run's task list is remembered
run_again ==
    /\ pc = "pool"
    /\ prev_tasks = {}
    /\ dispatched = 0
    /\ prev_tasks' = {tasks}
    /\ texts' = [i \in 1..Len(texts) |-> i]
    /\ texts_to_use' = <<>>
    /\ train_texts' = <<>>
    /\ val_texts' = <<>>
    /\ test_texts' = <<>>
    /\ total_items' = 0
    /\ tasks' = <<>>
    /\ pc' = "generate"
    /\ UNCHANGED <<mode, train_split, val_split, args_workers, cpu_count,
                   num_workers, target_height, data_tree, render_task, max_texts,
                   style, max_fonts_per_category, font_tree, fontVars, dispatched, running, results, seqVars, metadata,
                   stats, failed, diskVars, errors, success,
                   text_data, img>>

RerunNext == PlanNext \/ run_again

RerunSpec == PlanInit /\ [][RerunNext]_vars

\* ================================================================ claims
\* the proportions the specification calls valid
ValidSplit ==
    /\ train_split >= 0
    /\ val_split >= 0
    /\ train_split + val_split <= SplitDen

\* generate_dataset has split the text units
AfterSplit == pc \notin {"scan", "load", "generate", "split"} /\ errors = {}

\* the parallel planner has built its task list
Planned == pc = "pool"

\* the number a file name reads as
RECURSIVE NameValue(_)
NameValue(d) ==
    IF d = <<>> THEN 0 ELSE 10 * NameValue(SubSeq(d, 1, Len(d) - 1)) + d[Len(d)]

TasksOf(sp) == {i \in DOMAIN tasks : tasks[i].split_name = sp}
TaskPath(i) == ImgPath(tasks[i].split_dir, tasks[i].img_filename)

\* C1: in the parallel strategy no two work items write the same image path:
\* the planned paths are pairwise different, within one subset no two items
\* share a file name, an item's directory is its subset's, and under every
\* interleaving of the workers no path is written twice
C1_NoSharedImagePath ==
    /\ \A i, j \in DOMAIN tasks : i # j => TaskPath(i) # TaskPath(j)
    /\ \A sp \in SplitSet : \A i, j \in TasksOf(sp) :
           i # j => tasks[i].img_filename # tasks[j].img_filename
    /\ \A i \in DOMAIN tasks : tasks[i].split_dir = tasks[i].split_name
    /\ num_workers > 1 => overwritten = {}

\* two workers hold items of the same subset at the same time
C1_Witness ==
    /\ pc = "pool"
    /\ \E c1, c2 \in running :
         /\ c1 # c2
         /\ tasks[c1[1]].split_name = tasks[c2[1]].split_name

\* C2: for valid proportions the subsets' planned item counts sum to the
\* total, and each subset's sequence numbers are exactly 0..count-1, none
\* repeated
C2_CountsSumAndDense ==
    (Planned /\ ValidSplit) =>
        /\ Cardinality(TasksOf("train")) + Cardinality(TasksOf("validation"))
             + Cardinality(TasksOf("test")) = Len(tasks)
        /\ Len(tasks) = total_items
        /\ \A sp \in SplitSet :
             /\ {NameValue(tasks[i].img_filename) : i \in TasksOf(sp)}
                  = 0..(Cardinality(TasksOf(sp)) - 1)
             /\ \A i, j \in TasksOf(sp) :
                  i # j => tasks[i].img_filename # tasks[j].img_filename

\* two fonts, and every subset has items
C2_Witness ==
    /\ Planned
    /\ ValidSplit
    /\ Len(fonts) >= 2
    /\ \A sp \in SplitSet : TasksOf(sp) # {}

\* C3: after the split every text unit is in exactly one of the three lists:
\* train, validation and test, concatenated, are the shuffled sequence
C3_SplitPartitions ==
    AfterSplit => train_texts \o val_texts \o test_texts = texts_to_use

\* the same for proportions in range only
SplitPartitionsWhenValid ==
    (AfterSplit /\ ValidSplit) =>
        train_texts \o val_texts \o test_texts = texts_to_use

\* C4 as stated: the train list has round(n * p_train) units, the
\* validation list the next round(n * p_val), the test list the rest
C4_RoundedSizes ==
    (AfterSplit /\ ValidSplit) =>
        LET n == Len(texts_to_use)
            a == IntRound(n * train_split, SplitDen)
            b == IntRound(n * val_split, SplitDen)
        IN  /\ train_texts = SubSeq(texts_to_use, 1, a)
            /\ val_texts = SubSeq(texts_to_use, a + 1, a + b)
            /\ test_texts = SubSeq(texts_to_use, a + b + 1, n)

\* C4 amended: for proportions in range the train list has the a first
\* units, a the integer part of n * p_train (a <= n * p_train < a + 1), the
\* validation list the next b, b the integer part of n * p_val, and the
\* test list the rest
C4_TruncatedSizes ==
    (AfterSplit /\ ValidSplit) =>
        LET n == Len(texts_to_use)
            a == Len(train_texts)
            b == Len(val_texts)
        IN  /\ a * SplitDen <= n * train_split
            /\ n * train_split < (a + 1) * SplitDen
            /\ b * SplitDen <= n * val_split
            /\ n * val_split < (b + 1) * SplitDen
            /\ train_texts = SubSeq(texts_to_use, 1, a)
            /\ val_texts = SubSeq(texts_to_use, a + 1, a + b)
            /\ test_texts = SubSeq(texts_to_use, a + b + 1, n)

\* n * p_train is no integer, and no list is empty
C4_Witness ==
    /\ AfterSplit
    /\ ValidSplit
    /\ (Len(texts_to_use) * train_split) % SplitDen # 0
    /\ train_texts # <<>>
    /\ val_texts # <<>>
    /\ test_texts # <<>>

\* no work item was planned or rendered
NothingPlannedOrRendered ==
    /\ tasks = <<>>
    /\ dispatched = 0
    /\ seq_i = 0
    /\ failed = {}
    /\ images = {}

\* C5: invalid split proportions (a negative one, or train + val > 1) abort
\* the run with a configuration error before any work item is planned or
\* rendered
C5_InvalidSplitAborts ==
    ~ValidSplit =>
        /\ NothingPlannedOrRendered
        /\ pc = "done" => errors # {}

\* C6: with an empty font catalog or an empty text corpus generate_dataset
\* aborts with no partial output: no render, no image, no metadata stream,
\* no corpus descriptor
C6_EmptyInputNoOutput ==
    (pc \notin {"scan", "load", "generate", "crashed"}
       /\ (fonts = <<>> \/ texts = <<>>)) =>
        /\ errors # {}
        /\ NothingPlannedOrRendered
        /\ results = <<>>
        /\ meta_files = {}
        /\ dataset_info = {}

\* the run ended on an empty corpus with fonts at hand
C6_Witness ==
    /\ pc = "done"
    /\ fonts # <<>>
    /\ texts = <<>>

\* C7: after a fatal configuration error (empty font catalog or empty text
\* corpus) main never reports that the dataset was generated successfully
\* (stated for proportions in range)
C7_ErrorNeverSuccess == (ValidSplit /\ errors # {}) => ~success

EngineDone == pc \in {"save", "summary", "done"} /\ errors = {}

\* the (split, file name, caption) records of the metadata lists
Recorded ==
    UNION {{<<sp, metadata[sp][k].file_name, metadata[sp][k].text>> :
              k \in DOMAIN metadata[sp]} : sp \in SplitSet}

\* the plan and the loop of the two engines, for this run's fonts and lists
ThePlan == PlanTasks(fonts, train_texts, val_texts, test_texts, mode)

\* each engine records what its outcome operator says
EnginesMatchTheirOutcome ==
    EngineDone =>
        IF num_workers > 1
        THEN Recorded = ParRecords(ThePlan, failed)
        ELSE Recorded = SeqRecords(SeqItems, ZeroCounters, failed)

\* C9: for the same fonts, lists, granularity and pattern of render
\* failures, the sequential and the parallel strategy give the same
\* (subset, file name) -> caption mappings: what the engine that ran has
\* recorded is what either strategy records for the items that failed
\* (stated for proportions in range)
C9_StrategiesAgree ==
    (EngineDone /\ ValidSplit) =>
        /\ Recorded = SeqRecords(SeqItems, ZeroCounters, failed)
        /\ Recorded = ParRecords(ThePlan, failed)

\* the file names of a metadata stream on disk
StreamNames(sp) ==
    UNION {{m[2][k].file_name : k \in DOMAIN m[2]} :
              m \in {x \in meta_files : x[1] = sp}}

\* the image files of a subset folder
FolderNames(sp) == {p[2] : p \in {x \in images : x[1] = sp}}

\* the names 00000000 .. k-1
SequentialNames(k) == {Pad08(i) : i \in 0..(k - 1)}

\* C10: after a completed run the image files of each subset folder, and the
\* names its metadata stream records, are exactly the 8-digit numbers
\* 0..k-1, k the subset's sample count (stated for proportions in range)
C10_SequentialFileNames ==
    (pc = "done" /\ errors = {} /\ ValidSplit) =>
        \A sp \in SplitSet :
            /\ StreamNames(sp) = SequentialNames(stats[SamplesKey(sp)])
            /\ FolderNames(sp) = SequentialNames(stats[SamplesKey(sp)])

\* the same for the sequential strategy only
SequentialFileNamesWhenSequential ==
    (pc = "done" /\ errors = {} /\ num_workers = 1) =>
        \A sp \in SplitSet :
            /\ StreamNames(sp) = SequentialNames(stats[SamplesKey(sp)])
            /\ FolderNames(sp) = SequentialNames(stats[SamplesKey(sp)])

\* an exception left the render loop of an engine
RenderRaised == pc = "crashed" /\ texts_to_use # <<>>

\* the work items of a subset whose render did not fail
NonFailing(sp) ==
    {i \in DOMAIN SeqItems :
        SeqItems[i].split_name = sp /\ ItemKey(SeqItems[i]) \notin failed}

\* each subset's sample count, and its number of recorded samples, is the
\* number of its work items that did not fail
SamplesAreNonFailingItems ==
    EngineDone =>
        \A sp \in SplitSet :
            /\ stats[SamplesKey(sp)] = Cardinality(NonFailing(sp))
            /\ Len(metadata[sp]) = Cardinality(NonFailing(sp))

\* C11: a render that fails (the font cannot be opened, or measuring,
\* drawing or saving raises) never raises past the worker: in both
\* strategies no exception leaves the render loop, and each subset's sample
\* count is the number of its work items that did not fail (stated for
\* proportions in range)
C11_FailedRenderIsSkipped ==
    ValidSplit => (~RenderRaised /\ SamplesAreNonFailingItems)

\* C12: in the parallel strategy every work item has its file name before
\* the first item is dispatched to the pool (the task list is the whole
\* plan), and no step at or after a dispatch assigns or changes a name
C12_NamesFixedBeforeDispatch ==
    /\ [](dispatched > 0 => tasks = ThePlan)
    /\ [][(dispatched > 0 \/ dispatched' > 0) => tasks' = tasks]_vars

\* every item of a plan of two subsets is dispatched, and a worker still runs
C12_Witness ==
    /\ pc = "pool"
    /\ Len(tasks) >= 2
    /\ dispatched = Len(tasks)
    /\ running # {}
    /\ tasks[1].split_name # tasks[2].split_name

\* the tasks of a subset whose worker returned an entry
Rendered(sp) == {i \in TasksOf(sp) : ItemKey(tasks[i]) \notin failed}

\* C13: in the parallel strategy the collected output is a function of the
\* task list and of the items' outcomes alone, whatever the order in which
\* the workers finish: each subset's metadata list holds, once each, the
\* records of its tasks that rendered, and its sample count is their number
C13_CompletionOrderIrrelevant ==
    (EngineDone /\ num_workers > 1) =>
        \A sp \in SplitSet :
            /\ {metadata[sp][k] : k \in DOMAIN metadata[sp]}
                 = {Popped(WorkerEntry(tasks[i])) : i \in Rendered(sp)}
            /\ Len(metadata[sp]) = Cardinality(Rendered(sp))
            /\ stats[SamplesKey(sp)] = Cardinality(Rendered(sp))

\* the second task of a subset finished before the first
C13_Witness ==
    /\ EngineDone
    /\ num_workers > 1
    /\ Len(results) = 2
    /\ results[1] = WorkerEntry(tasks[2])
    /\ results[2] = WorkerEntry(tasks[1])

\* the text units of a subset's list
SplitTexts(sp) ==
    IF sp = "train" THEN train_texts
    ELSE IF sp = "validation" THEN val_texts ELSE test_texts

UnitsOf(list) == {list[i] : i \in DOMAIN list}

\* the captions a unit is to yield: its words one by one, or itself
CaptionsOf(u) ==
    IF mode = "words" THEN {<<u, w>> : w \in 1..WordsOf(u)} ELSE {<<u, 0>>}

\* the items a list of work items holds for a font, a subset and a unit
ItemsFor(items, f, sps, u) ==
    {i \in DOMAIN items :
        items[i].font = f /\ items[i].split_name \in sps /\ items[i].unit = u}

\* items holds, per font, exactly the items of unit u of the subsets sps
YieldsItsCaptions(items, sps, u) ==
    \A f \in UnitsOf(fonts) :
        /\ Cardinality(ItemsFor(items, f, sps, u)) = Cardinality(CaptionsOf(u))
        /\ Cardinality(CaptionsOf(u)) = (IF mode = "words" THEN WordsOf(u) ELSE 1)
        /\ {items[i].text : i \in ItemsFor(items, f, sps, u)} = CaptionsOf(u)

\* C14: in per-word granularity a text unit of w words yields exactly w work
\* items per font, one per word and captioned with it, and in full-unit
\* granularity exactly one, captioned with the whole unit: so for every unit
\* of a subset's list, in the parallel plan and in the sequential loop, and,
\* for proportions in range, for every unit used, over the three subsets
C14_ItemsPerUnit ==
    Planned =>
        /\ \A sp \in SplitSet : \A u \in UnitsOf(SplitTexts(sp)) :
              /\ YieldsItsCaptions(tasks, {sp}, u)
              /\ YieldsItsCaptions(SeqItems, {sp}, u)
        /\ ValidSplit => \A u \in UnitsOf(texts_to_use) :
              /\ YieldsItsCaptions(tasks, SplitSet, u)
              /\ YieldsItsCaptions(SeqItems, SplitSet, u)

\* two fonts, and a unit of two words rendered word by word
C14_Witness ==
    /\ Planned
    /\ mode = "words"
    /\ Len(fonts) >= 2
    /\ \E i \in DOMAIN tasks : WordsOf(tasks[i].unit) = 2 /\ tasks[i].text[2] = 2

\* two fonts, and a unit of two words rendered whole
WholeUnitWitness ==
    /\ Planned
    /\ mode = "lines"
    /\ Len(fonts) >= 2
    /\ \E i \in DOMAIN tasks : WordsOf(tasks[i].unit) = 2

\* C15: the expected total item count computed before the expansion equals
\* the number of work items the planner emits (the parallel task list, the
\* sequential loop), for every catalog, corpus, split and granularity
C15_ExpectedEqualsEmitted ==
    Planned => (total_items = Len(tasks) /\ total_items = Len(SeqItems))

\* the same for proportions in range only
ExpectedEqualsEmittedWhenValid ==
    (Planned /\ ValidSplit) =>
        (total_items = Len(tasks) /\ total_items = Len(SeqItems))

\* train before validation before test
SplitRank(sp) == IF sp = "train" THEN 1 ELSE IF sp = "validation" THEN 2 ELSE 3

\* the position of a unit in its subset's list
PositionIn(list, u) == CHOOSE i \in DOMAIN list : list[i] = u

\* where an item stands: its font's position in the catalog, its subset,
\* its unit's position in the subset's list, its word's position in the unit
FontOf(it) == it.font
SubsetOf(it) == SplitRank(it.split_name)
UnitOf(it) == PositionIn(SplitTexts(it.split_name), it.unit)
WordOf(it) == it.text[2]

LexLess(a, b) ==
    \E k \in 1..4 : a[k] < b[k] /\ \A j \in 1..(k - 1) : a[j] = b[j]

SubsetMajor(it) == <<SubsetOf(it), FontOf(it), UnitOf(it), WordOf(it)>>
FontMajor(it) == <<FontOf(it), SubsetOf(it), UnitOf(it), WordOf(it)>>

\* C16 as stated: the items are enumerated subset by subset, within a subset
\* font by font, then by text unit, then by word
C16_SubsetMajorOrder ==
    (Planned /\ ValidSplit) =>
        \A i, j \in DOMAIN tasks :
            i < j => LexLess(SubsetMajor(tasks[i]), SubsetMajor(tasks[j]))

\* C16 amended: the items are enumerated font by font, within a font subset
\* by subset (train, validation, test), then by text unit in the subset's
\* list, then by word position, in the parallel plan and the sequential loop
C16_FontMajorOrder ==
    Planned =>
        /\ \A i, j \in DOMAIN tasks :
              i < j => LexLess(FontMajor(tasks[i]), FontMajor(tasks[j]))
        /\ \A i, j \in DOMAIN SeqItems :
              i < j => LexLess(FontMajor(SeqItems[i]), FontMajor(SeqItems[j]))

\* two fonts, and items in two subsets
C16_Witness ==
    /\ Planned
    /\ Len(fonts) >= 2
    /\ \E i, j \in DOMAIN tasks : tasks[i].split_name # tasks[j].split_name

\* scan_fonts has returned
ScanDone == pc = "load"

\* the font files scan_fonts sees in family folder k
FilesOf(k) == UnitsOf(FontFiles(font_tree[k]))

\* the family folders that hold font files
Families == {k \in DOMAIN font_tree : FilesOf(k) # {}}

\* the files of family k that match the requested style
MatchingSet(k) ==
    {name \in FilesOf(k) :
        IF style = "bold" THEN IsBoldFile(name) ELSE IsNormalFile(name)}

\* the positions in self.fonts of the records of family k
RecordsOf(k) == {i \in DOMAIN font_info : font_info[i].name = k}

\* C17: scan_fonts emits at most one record per family folder; a family (a
\* folder with font files) qualifies iff its set matching the requested style
\* is not empty, and only a qualifying family has a record, all of them when
\* no limit is set; the record's file is a member of that set; a family that
\* does not qualify is counted in fonts_skipped
C17_IncludedIffStyleMatches ==
    ScanDone =>
        /\ \A k \in DOMAIN font_tree : Cardinality(RecordsOf(k)) <= 1
        /\ \A i \in DOMAIN font_info :
              /\ font_info[i].name \in Families
              /\ font_info[i].path[1] = font_info[i].name
              /\ font_info[i].path[2] \in MatchingSet(font_info[i].name)
              /\ font_info[i].style = style
              /\ font_info[i].category = font_tree[font_info[i].name].category
        /\ max_fonts_per_category = NoneVal =>
              \A k \in Families : RecordsOf(k) # {} <=> MatchingSet(k) # {}
        /\ font_stats.fonts_skipped
             = Cardinality({k \in Families : MatchingSet(k) = {}})

\* a folder with only Family-Italic.ttf and one with Family.ttf and
\* Family-Bold.ttf, scanned for bold: the second is included with its bold file
C17_Witness ==
    /\ ScanDone
    /\ style = "bold"
    /\ font_tree = <<Folder(1, <<NameItalic>>, "ok"),
                     Folder(1, <<NameRegular, NameBold>>, "ok")>>
    /\ Len(font_info) = 1
    /\ font_info[1].path = <<2, NameBold>>
    /\ font_stats.fonts_skipped = 1

\* the same two folders scanned for normal
IncludedUnderNormalWitness ==
    /\ ScanDone
    /\ style = "normal"
    /\ font_tree = <<Folder(1, <<NameItalic>>, "ok"),
                     Folder(1, <<NameRegular, NameBold>>, "ok")>>
    /\ Len(font_info) = 1
    /\ font_info[1].path = <<2, NameRegular>>
    /\ font_stats.fonts_skipped = 1

\* the lower-cased name contains one of the markers
HasMarker(name, markers) == \E m \in markers : Contains(Lower(name), m)

\* every font file is classified by the markers: bold-like iff its name has
\* one of boldMarkers and none of italic, oblique; normal-like iff it has
\* none of them all; never both; and the scan's bold count follows
ClassifiedBy(boldMarkers) ==
    /\ \A k \in DOMAIN font_tree : \A name \in FilesOf(k) :
          /\ IsBoldFile(name) <=>
                (HasMarker(name, boldMarkers)
                   /\ ~HasMarker(name, {KwItalic, KwOblique}))
          /\ IsNormalFile(name) <=>
                ~HasMarker(name, boldMarkers \cup {KwItalic, KwOblique})
          /\ ~(IsBoldFile(name) /\ IsNormalFile(name))
    /\ font_stats.fonts_with_bold
         = Cardinality({k \in Families : \E name \in FilesOf(k) :
                           HasMarker(name, boldMarkers)
                             /\ ~HasMarker(name, {KwItalic, KwOblique})})

\* C18 as stated: the bold markers are bold, heavy, black
C18_ClassifiedByMarkers ==
    ScanDone => ClassifiedBy({KwBold, KwHeavy, KwBlack})

\* C18 amended: the bold markers are bold, bd, heavy, black
C18_ClassifiedByMarkersWithBd ==
    ScanDone => ClassifiedBy({KwBold, KwBd, KwHeavy, KwBlack})

\* a folder with arialbd.ttf and a folder with oblique, bold-italic, black
\* and heavy files were scanned
C18_Witness ==
    /\ ScanDone
    /\ \E k \in DOMAIN font_tree : font_tree[k].files = <<NameBd>>
    /\ \E k \in DOMAIN font_tree : Len(font_tree[k].files) = 5

\* the qualifying families of a category, and the ones selected
Qualifying(c) ==
    {k \in Families : font_tree[k].category = c /\ MatchingSet(k) # {}}
Selected(c) ==
    {font_info[i].name : i \in {j \in DOMAIN font_info : font_info[j].category = c}}

\* C19: with a limit m (m >= 0) the fonts selected of every category are
\* qualifying families of it, exactly m of them when more than m qualify and
\* all of them otherwise; with no limit all of them
C19_CapPerCategory ==
    (ScanDone /\ (max_fonts_per_category = NoneVal \/ max_fonts_per_category >= 0)) =>
        \A c \in 1..MaxCategories :
            /\ Selected(c) \subseteq Qualifying(c)
            /\ Cardinality({j \in DOMAIN font_info : font_info[j].category = c})
                 = Cardinality(Selected(c))
            /\ IF max_fonts_per_category # NoneVal
                  /\ Cardinality(Qualifying(c)) > max_fonts_per_category
               THEN Cardinality(Selected(c)) = max_fonts_per_category
               ELSE Selected(c) = Qualifying(c)

\* two families of one category qualify and the limit is 1
C19_Witness ==
    /\ ScanDone
    /\ max_fonts_per_category = 1
    /\ Cardinality(Qualifying(1)) = 2
    /\ Len(font_info) = 1

\* C20: an I/O error on a family folder never aborts scan_fonts: the scan
\* returns, the family is skipped and counted in fonts_skipped, and every
\* other family is scanned and classified
C20_ScanSurvivesIOError ==
    /\ pc # "crashed"
    /\ ScanDone =>
          /\ font_stats.fonts_skipped
               = Cardinality({k \in DOMAIN font_tree :
                                 \/ font_tree[k].listing # "ok"
                                 \/ (k \in Families /\ MatchingSet(k) = {})})
          /\ max_fonts_per_category = NoneVal =>
                \A k \in Families : RecordsOf(k) # {} <=> MatchingSet(k) # {}

\* ---------------------------------------------------------------- C21, C22
Loaded == pc = "generate"

\* the units of text_data that come from file k, in the order they stand in
UnitsOfFile(k) == SelectSeq(text_data, LAMBDA u : u.file = k)

\* the units of text_data that come from line l of file k
UnitsOfLine(k, l) ==
    SelectSeq(text_data, LAMBDA u : u.text[1][1] = k /\ u.text[1][2] = l)

TextsOf(units) == Flatten([c \in DOMAIN units |-> units[c].text])

\* the lines of file k that are not blank, by their position among them
WordLines(k) == SelectSeq(data_tree[k].lines, LAMBDA line : line # <<>>)

\* C21: a line of w >= 1 words of a file that is read yields exactly
\* ceil(w / 5) units, each of 1 to 5 words, all but the last of exactly 5,
\* whose words in order are the words of the line; the units of a file stand
\* in the order of its lines and, within a line, of its chunks.
C21_LinesRechunkedByFive ==
    Loaded =>
        /\ \A k \in DOMAIN data_tree : data_tree[k].readable =>
              \A l \in DOMAIN WordLines(k) :
                 LET line == WordLines(k)[l]
                     w == Len(line)
                     units == UnitsOfLine(k, line[1][2])
                 IN  /\ Len(units) = (w + 4) \div 5
                     /\ \A c \in DOMAIN units :
                           /\ Len(units[c].text) \in 1..5
                           /\ c < Len(units) => Len(units[c].text) = 5
                     /\ TextsOf(units) = line
        /\ \A i, j \in DOMAIN text_data :
              (i < j /\ text_data[i].file = text_data[j].file) =>
                 LET a == text_data[i].text[1]
                     b == text_data[j].text[1]
                 IN  a[2] < b[2] \/ (a[2] = b[2] /\ a[3] < b[3])

\* a line of two full chunks and a word was loaded after another line of
\* the same file
C21_Witness ==
    /\ Loaded
    /\ \E i, j \in DOMAIN text_data :
          /\ i < j
          /\ text_data[i].file = text_data[j].file
          /\ text_data[i].text[1][2] < text_data[j].text[1][2]
          /\ text_data[j].text[1][3] = 2 * ChunkSize + 1

\* C22: a file that cannot be read contributes no unit, and every file that
\* can be read contributes all its words, whether it stands before or after
\* one that cannot; the units stand in the order of the files.
C22_UnreadableFileSkipped ==
    Loaded =>
        /\ \A k \in DOMAIN data_tree :
              TextsOf(UnitsOfFile(k)) =
                 IF data_tree[k].readable THEN Flatten(data_tree[k].lines)
                 ELSE <<>>
        /\ \A i, j \in DOMAIN text_data :
              i < j => text_data[i].file <= text_data[j].file
        /\ \A i \in DOMAIN text_data : text_data[i].file \in DOMAIN data_tree

\* a file that cannot be read stood between two files that left units
C22_Witness ==
    /\ Loaded
    /\ \E k \in DOMAIN data_tree :
          /\ ~data_tree[k].readable
          /\ \E i, j \in DOMAIN text_data :
                text_data[i].file < k /\ k < text_data[j].file

\* --------------------------------------------------------------------- C23
\* the width measured last for the rendered text
MeasuredWidth ==
    LET bbox == Measure(render_task, target_height) IN bbox[3] - bbox[1]

\* C23: a render that succeeds leaves an image of height exactly h and of
\* width exactly max(wd, 10), wd the measured width of the text: never
\* narrower than 10, and 10 x h for the empty string.
C23_ImageSize ==
    (pc = "rendered" /\ img.ok) =>
        /\ img.height = target_height
        /\ img.width = (IF MeasuredWidth > 10 THEN MeasuredWidth ELSE 10)
        /\ img.width >= 10
        /\ render_task.text = 0 => img.width = 10

\* a text that is not empty measured narrower than the floor, rendered
C23_Witness ==
    /\ pc = "rendered"
    /\ img.ok
    /\ render_task.text > 0
    /\ MeasuredWidth < 10
    /\ img.height = MinWidth

\* the empty string rendered at the default height
EmptyStringWitness ==
    /\ pc = "rendered"
    /\ img.ok
    /\ render_task.text = 0
    /\ target_height = DefaultHeight

\* --------------------------------------------------------------------- C24
\* the records written to the metadata stream of subset sp
StreamOf(sp) == {f \in meta_files : f[1] = sp}

\* C24: after a completed run of either engine the descriptor agrees with
\* the metadata streams: its total is the sum of its three subset counts,
\* each subset count is the number of records of that subset's stream, and
\* its font count is the number of fonts of the catalog.
C24_DescriptorConsistent ==
    (pc = "done" /\ fonts # <<>> /\ texts # <<>>) =>
        /\ Cardinality(dataset_info) = 1
        /\ \A sp \in SplitSet : Cardinality(StreamOf(sp)) = 1
        /\ \A d \in dataset_info :
              /\ d.total_samples = d.train + d.validation + d.test
              /\ \A sp \in SplitSet : \A f \in StreamOf(sp) : d[sp] = Len(f[2])
              /\ d.num_fonts = Len(fonts)

\* a run of the parallel engine with a failed render and a written record
\* has completed
C24_Witness ==
    /\ pc = "done"
    /\ num_workers > 1
    /\ failed # {}
    /\ \E d \in dataset_info : d.total_samples > 0 /\ d.num_fonts = MaxFonts

\* a run of the sequential engine with a failed render and a written record
\* has completed
SequentialDescriptorWitness ==
    /\ pc = "done"
    /\ num_workers = 1
    /\ failed # {}
    /\ \E d \in dataset_info : d.total_samples > 0

\* --------------------------------------------------------------------- C25
RunStarted == pc = "generate" /\ fonts # <<>> /\ texts # <<>>

RunCompleted ==
    /\ pc = "done"
    /\ \A sp \in SplitSet : StreamOf(sp) # {}
    /\ dataset_info # {}
    /\ success

\* C25: every run started with a catalog and a corpus that are not empty
\* ends with the three metadata streams, the descriptor and the summary
\* written, whatever renders fail.
C25_RunCompletes == RunStarted ~> RunCompleted

\* the same of the runs of the parallel engine only, where a save that
\* raises is caught in the worker
ParallelRunCompletes == (RunStarted /\ num_workers > 1) ~> RunCompleted

\* every run ends completed or left by the exception of a save
RunCompletesOrCrashes == RunStarted ~> (RunCompleted \/ pc = "crashed")

\* --------------------------------------------------------------------- C26
\* where an item stands in its subset: font, unit, word
InSubset(it) == <<FontOf(it), UnitOf(it), WordOf(it), 0>>

\* the items of the subset of task i that stand before it
BeforeInSubset(i) ==
    {j \in TasksOf(tasks[i].split_name) :
        LexLess(InSubset(tasks[j]), InSubset(tasks[i]))}

NamesOf(list) == {<<ItemKey(list[i]), list[i].img_filename>> : i \in DOMAIN list}

\* C26: the number in an item's planned file name is the number of items of
\* its subset that stand before it in the order of (font, unit, word); the
\* names are those the loops nested subset first would give.
C26_NumberIsRankInSubset ==
    Planned =>
        /\ \A i \in DOMAIN tasks :
              NameValue(tasks[i].img_filename) = Cardinality(BeforeInSubset(i))
        /\ NamesOf(tasks) =
              NamesOf(AssignNames(LoopItemsSubsetMajor(fonts, train_texts,
                                      val_texts, test_texts, mode),
                                  ZeroCounters))

\* the second word of a unit under the second font is numbered after the
\* items of the first font in its subset, while another subset has items
C26_Witness ==
    /\ Planned
    /\ \E i, j \in DOMAIN tasks :
          /\ tasks[i].font = 2
          /\ WordOf(tasks[i]) = 2
          /\ NameValue(tasks[i].img_filename) >= 3
          /\ tasks[j].split_name # tasks[i].split_name
          /\ j < i

\* --------------------------------------------------------------------- C27
\* the records of the metadata lists, whole
RecordedWhole ==
    UNION {{<<sp, metadata[sp][k].file_name, metadata[sp][k].text,
              metadata[sp][k].font_name, metadata[sp][k].source_book>> :
              k \in DOMAIN metadata[sp]} : sp \in SplitSet}

\* the items whose render did not fail
Succeeded == {i \in DOMAIN SeqItems : ItemKey(SeqItems[i]) \notin failed}

\* the items of the subset of item i that stand before it in the loops
EarlierInSubset(i) ==
    {j \in 1..(i - 1) : SeqItems[j].split_name = SeqItems[i].split_name}

\* the file name either strategy gives item i
SequentialName(i) == ImgFilename(Cardinality(EarlierInSubset(i) \cap Succeeded))
ParallelName(i) == ThePlan[i].img_filename

SequentialWrites ==
    {<<SeqItems[i].split_name, SequentialName(i), SeqItems[i].text,
       SeqItems[i].font, BookOf(SeqItems[i].unit)>> : i \in Succeeded}

ParallelWrites ==
    {<<ThePlan[i].split_name, ParallelName(i), ThePlan[i].text,
       ThePlan[i].font, BookOf(ThePlan[i].unit)>> : i \in Succeeded}

\* C27: the engine that ran has written what its strategy writes; when no
\* render fails the two strategies write the same records; and the two
\* strategies name an item differently only if an item of its subset that
\* stands before it has failed.
C27_SameRecordsWithoutFailure ==
    EngineDone =>
        /\ RecordedWhole = (IF num_workers > 1 THEN ParallelWrites
                            ELSE SequentialWrites)
        /\ failed = {} => SequentialWrites = ParallelWrites
        /\ \A i \in Succeeded :
              SequentialName(i) # ParallelName(i) =>
                 EarlierInSubset(i) \ Succeeded # {}

\* the sequential engine has written two records of different units, with
\* no failure
C27_Witness ==
    /\ EngineDone
    /\ num_workers = 1
    /\ failed = {}
    /\ \E a, b \in RecordedWhole : a[3][1] # b[3][1]

\* an item is named differently by the two strategies
NamedDifferentlyWitness ==
    /\ EngineDone
    /\ \E i \in Succeeded : SequentialName(i) # ParallelName(i)

\* --------------------------------------------------------------------- C28
\* C28: the worker count is the number of CPUs for the setting -1, 1 for
\* any other setting below 1, the setting otherwise, and never below 1; the
\* sequential engine runs iff it is 1, the parallel engine iff it is greater
\* than 1, and a generation runs exactly one of the two.
C28_StrategyByWorkerCount ==
    /\ num_workers = (IF args_workers = -1 THEN cpu_count
                      ELSE IF args_workers < 1 THEN 1 ELSE args_workers)
    /\ num_workers >= 1
    /\ pc = "sequential" => num_workers = 1
    /\ pc \in {"parallel", "pool"} => num_workers > 1
    /\ (seq_i > 0 \/ global_count # ZeroCounters) =>
          (num_workers = 1 /\ tasks = <<>> /\ results = <<>>)
    /\ tasks # <<>> => (num_workers > 1 /\ seq_i = 0 /\ global_count = ZeroCounters)
    /\ (EngineDone /\ fonts # <<>> /\ texts_to_use # <<>>) =>
          IF num_workers = 1
          THEN seq_i = Len(SeqItems) /\ tasks = <<>>
          ELSE tasks = ThePlan /\ dispatched = Len(tasks) /\ seq_i = 0

\* the parallel engine has run under the setting -1 on two CPUs
C28_Witness ==
    /\ EngineDone
    /\ args_workers = -1
    /\ cpu_count = 2
    /\ tasks # <<>>
    /\ metadata # EmptyMetadata

\* the sequential engine has run under a setting below -1
SequentialUnderNegativeWitness ==
    /\ EngineDone
    /\ args_workers < -1
    /\ seq_i > 0
    /\ metadata # EmptyMetadata

\* the parallel engine has run under the setting 2 on one CPU
ParallelAsConfiguredWitness ==
    /\ EngineDone
    /\ args_workers = 2
    /\ cpu_count = 1
    /\ tasks # <<>>

\* --------------------------------------------------------------------- C29
\* the shuffle of generate_dataset is done
Shuffled == pc \in {"split", "parallel", "sequential", "pool"}

\* the units loaded, by their position in discovery order
Discovered == 1..Len(text_data)

\* C29: with a maximum m >= 1 the units used are the first min(m, n) of the
\* n loaded units, in some order; with a maximum of 0 or none they are all
\* n loaded units.
C29_PrefixThenShuffle ==
    Shuffled =>
        LET n == Len(text_data)
            used == IF max_texts # NoneVal /\ max_texts >= 1
                    THEN (IF max_texts < n THEN max_texts ELSE n) ELSE n
        IN  /\ Len(texts_to_use) = used
            /\ UnitsOf(texts_to_use) = 1..used

\* the first two of three loaded units are used, the second before the first
C29_Witness ==
    /\ Shuffled
    /\ Len(text_data) = 3
    /\ max_texts = 2
    /\ texts_to_use = <<2, 1>>

\* a maximum of 0 uses the three loaded units
ZeroMaximumWitness ==
    /\ Shuffled
    /\ Len(text_data) = 3
    /\ max_texts = 0
    /\ Len(texts_to_use) = 3

\* --------------------------------------------------------------------- C30
\* how many times unit u stands in a list
CountIn(list, u) == Cardinality({i \in DOMAIN list : list[i] = u})

InGenerateDataset == pc \notin {"scan", "load"}

\* C30: no step of generate_dataset changes self.texts when a maximum that
\* is not zero is given; with no maximum the shuffle leaves self.texts as
\* the shuffled list itself; every step leaves the loaded units, each as
\* many times as before, and leaves self.fonts as it is.
C30_TextsKeptOrPermuted ==
    [][InGenerateDataset =>
        /\ Truthy(max_texts) => texts' = texts
        /\ (~Truthy(max_texts) /\ pc = "generate" /\ pc' = "split") =>
              texts' = texts_to_use'
        /\ Len(texts') = Len(texts)
        /\ \A u \in Discovered : CountIn(texts', u) = CountIn(texts, u)
        /\ fonts' = fonts
        /\ font_info' = font_info]_vars

\* with no maximum, self.texts is no longer in discovery order
C30_Witness ==
    /\ pc = "split"
    /\ max_texts = NoneVal
    /\ texts = texts_to_use
    /\ texts # [i \in Discovered |-> i]

\* with a maximum, self.texts is whole and in discovery order while a
\* shorter list, in another order, is used
CopyShuffledWitness ==
    /\ pc = "split"
    /\ max_texts = 2
    /\ texts = [i \in Discovered |-> i]
    /\ texts_to_use = <<2, 1>>
    /\ Len(texts) = 3

====
